---- MODULE Spec2Model ----
(***************************************************************************)
(* Model of the image upload server: the HTTP handler Upload, the service  *)
(* ImageService.ProcessAndUploadImage and the S3 repository it writes to.  *)
(*                                                                         *)
(* Strings are sequences of one-character strings (a URL prefix is a       *)
(* sequence of longer chunks), so that key derivation (filepath.Ext,       *)
(* strings.ToLower, strings.TrimSuffix, fmt.Sprintf) is computed as the    *)
(* code computes it.  An uploaded file is abstracted to what image.Decode  *)
(* makes of it: whether it decodes, its format tag and its bounds.  The    *)
(* content of a stored object is abstracted to its format and the bounds   *)
(* of the raster it holds.                                                 *)
(*                                                                         *)
(* One lookup by name (ImageHandler.GetImage) is answered after the        *)
(* upload's response; it reads the bucket and changes nothing.             *)
(*                                                                         *)
(* One upload request is followed from the handler's entry to its          *)
(* response.  Every call of S3Repository.UploadFile is split into the call *)
(* (a pending entry of puts) and its return, so that "in flight" is a      *)
(* state of the model.                                                     *)
(***************************************************************************)
EXTENDS Integers, Sequences, FiniteSets, TLC

VARIABLES
    cfg,                \* config.S3Config of the repository
    store,              \* the bucket: key -> stored object
    store0,             \* history: the bucket when the request arrived
    hpc,                \* position of ImageHandler.Upload
    status,             \* HTTP status written by the handler (0: none yet)
    filename,           \* header.Filename
    fileBytes,          \* the uploaded bytes
    compressSizes,      \* the unmarshalled compress_sizes
    pc,                 \* position of ProcessAndUploadImage
    img,                \* decoded raster (Nil before decode)
    format,             \* format tag returned by image.Decode
    timestamp,          \* time.Now().UnixNano() of the request
    fileExt,
    fileNameWithoutExt,
    response,           \* *models.UploadResponse (Nil or <<record>>)
    err,                \* error returned by ProcessAndUploadImage
    idx,                \* index of the next spec of the range loop
    waiting,            \* the request is blocked inside UploadFile
    puts,               \* history: UploadFile calls of the request, in order
    attempts,           \* history: outcome of each spec processed so far
    lookup              \* the last GetImage request and its answer (Nil: none)

vars == <<cfg, store, store0, hpc, status, filename, fileBytes, compressSizes,
          pc, img, format, timestamp, fileExt, fileNameWithoutExt, response,
          err, idx, waiting, puts, attempts, lookup>>

-----------------------------------------------------------------------------
(* Bounds of the model *)

MaxSpecs == 2       \* longest compress_sizes list
MaxDim == 1         \* the positive width or height a spec may ask for

Nil == <<>>

\* A side of a spec: zero (which the handler does not reject) or positive
Dims == {0, MaxDim}

\* All sequences over S of length at most n
SeqsUpTo(S, n) == UNION {[1..k -> S] : k \in 0..n}

CompressSpecs == [Width : Dims, Height : Dims]

SpecLists == SeqsUpTo(CompressSpecs, MaxSpecs)

\* Clock readings
Timestamps == {9, 10}

\* Uploaded payloads, as image.Decode sees them
Payloads ==
    { [valid |-> FALSE, format |-> "", w |-> 0, h |-> 0],
      [valid |-> TRUE, format |-> "jpeg", w |-> 4, h |-> 2],
      [valid |-> TRUE, format |-> "png", w |-> 1, h |-> 2] }

Filenames ==
    { <<"a", ".", "j", "p", "g">>,
      <<"a", ".", "J", "P", "G">>,
      <<"a", "_", "2", "x", "1", ".", "p", "n", "g">>,
      <<"a", ".", "g", "i", "f">> }

Configs ==
    { [Endpoint |-> <<>>, BucketName |-> <<"b">>, Region |-> <<"r">>],
      [Endpoint |-> <<"e">>, BucketName |-> <<"b">>, Region |-> <<"r">>] }

-----------------------------------------------------------------------------
(* String helpers: the library functions the code calls *)

UpperChars == <<"A","B","C","D","E","F","G","H","I","J","K","L","M",
                "N","O","P","Q","R","S","T","U","V","W","X","Y","Z">>
LowerChars == <<"a","b","c","d","e","f","g","h","i","j","k","l","m",
                "n","o","p","q","r","s","t","u","v","w","x","y","z">>

LowerChar(c) ==
    IF \E k \in 1..Len(UpperChars) : UpperChars[k] = c
    THEN LowerChars[CHOOSE k \in 1..Len(UpperChars) : UpperChars[k] = c]
    ELSE c

\* strings.ToLower
ToLower(s) == [k \in 1..Len(s) |-> LowerChar(s[k])]

SetMax(S) == CHOOSE m \in S : \A n \in S : n <= m

\* filepath.Ext: the suffix beginning at the final dot of the final path
\* element, empty if there is none
Ext(path) ==
    LET dots == {k \in 1..Len(path) :
                    /\ path[k] = "."
                    /\ \A j \in k..Len(path) : path[j] # "/"}
    IN  IF dots = {} THEN <<>> ELSE SubSeq(path, SetMax(dots), Len(path))

HasSuffix(s, suffix) ==
    /\ Len(s) >= Len(suffix)
    /\ SubSeq(s, Len(s) - Len(suffix) + 1, Len(s)) = suffix

\* strings.TrimSuffix
TrimSuffix(s, suffix) ==
    IF HasSuffix(s, suffix) THEN SubSeq(s, 1, Len(s) - Len(suffix)) ELSE s

DigitChars == <<"0","1","2","3","4","5","6","7","8","9">>

RECURSIVE Itoa(_)
\* the %d verb of fmt.Sprintf
Itoa(n) ==
    IF n < 0 THEN <<"-">> \o Itoa(-n)
    ELSE IF n < 10 THEN <<DigitChars[n + 1]>>
    ELSE Itoa(n \div 10) \o <<DigitChars[(n % 10) + 1]>>

\* fmt.Sprintf("%s_%d%s", fileNameWithoutExt, timestamp, fileExt)
OriginalFileName(base, ts, ext) == base \o <<"_">> \o Itoa(ts) \o ext

\* fmt.Sprintf("%s_%dx%d_%d%s", fileNameWithoutExt, spec.Width, spec.Height,
\*             timestamp, fileExt)
CompressedFileName(base, spec, ts, ext) ==
    base \o <<"_">> \o Itoa(spec.Width) \o <<"x">> \o Itoa(spec.Height)
         \o <<"_">> \o Itoa(ts) \o ext

\* getContentType
getContentType(fmt) ==
    CASE fmt = "jpeg" -> "image/jpeg"
      [] fmt = "png" -> "image/png"
      [] OTHER -> "application/octet-stream"

\* The URL S3Repository.UploadFile builds for a stored key
ImageURL(c, fileName) ==
    IF c.Endpoint # <<>>
    THEN c.Endpoint \o <<"/">> \o c.BucketName \o <<"/">> \o fileName
    ELSE <<"https://">> \o c.BucketName \o <<".s3.">> \o c.Region
             \o <<".amazonaws.com/">> \o fileName

\* A decoder that reports no error: an undecodable payload yields an empty
\* raster
decodeImageLenient(bytes) ==
    IF bytes.valid /\ bytes.format \in {"jpeg", "png"}
    THEN [img |-> [w |-> bytes.w, h |-> bytes.h], format |-> bytes.format,
          ok |-> TRUE]
    ELSE [img |-> [w |-> 0, h |-> 0], format |-> "", ok |-> TRUE]

\* image.Decode with the jpeg and png decoders registered
decodeImage(bytes) ==
    IF bytes.valid /\ bytes.format \in {"jpeg", "png"}
    THEN [img |-> [w |-> bytes.w, h |-> bytes.h], format |-> bytes.format,
          ok |-> TRUE]
    ELSE [img |-> [w |-> 0, h |-> 0], format |-> "", ok |-> FALSE]

\* resize.Resize(width, height, img, resize.Lanczos3): bounds of the result.
\* A zero width or height is computed from the other one so that the aspect
\* ratio of img is kept, as uint(0.7 + side/scale); the input image is
\* returned when it has no pixels.
Resize(width, height, im) ==
    LET dx == im.w
        dy == im.h
        w1 == IF width # 0 THEN width
              ELSE IF height = 0 THEN dx
              ELSE (7 * dy + 10 * dx * height) \div (10 * dy)
        h1 == IF height # 0 THEN height
              ELSE IF width = 0 THEN dy
              ELSE (7 * dx + 10 * dy * width) \div (10 * dx)
    IN  IF dx <= 0 \/ dy <= 0 THEN [w |-> dx, h |-> dy]
        ELSE [w |-> w1, h |-> h1]

-----------------------------------------------------------------------------
(* The bucket *)

\* s3.PutObject: the object under the key is created or replaced
PutObject(s, key, obj) ==
    {o \in s : o.key # key} \cup {[key |-> key, obj |-> obj]}

Keys(s) == {o.key : o \in s}

ObjectAt(s, key) == (CHOOSE o \in s : o.key = key).obj

\* Buckets the server may be started on: empty, or holding an object that an
\* earlier request left under a key of the same naming scheme
InitialStores ==
    { {},
      { [key |-> OriginalFileName(<<"a">>, 9, <<".", "j", "p", "g">>),
         obj |-> [contentType |-> "image/jpeg", w |-> 3, h |-> 3]] } }

Pending == {k \in 1..Len(puts) : puts[k].result = "pending"}

\* Entry of S3Repository.UploadFile: the PutObject request is issued
UploadFileCall(bytes, fileName, contentType, specIndex) ==
    /\ puts' = Append(puts, [key |-> fileName, obj |-> [contentType |-> contentType,
                                                        w |-> bytes.w, h |-> bytes.h],
                             spec |-> specIndex, result |-> "pending"])
    /\ waiting' = TRUE

\* Return of S3Repository.UploadFile: PutObject succeeded (ok) and the object
\* is in the bucket, or it failed and the bucket is as it was
UploadFileReturn(ok) ==
    LET k == Len(puts) IN
    /\ waiting
    /\ puts' = [puts EXCEPT ![k].result = IF ok THEN "ok" ELSE "error"]
    /\ store' = IF ok THEN PutObject(store, puts[k].key, puts[k].obj) ELSE store
    /\ waiting' = FALSE

-----------------------------------------------------------------------------
(* Initial state: repository, service and handler constructed, no request *)

Init ==
    /\ cfg \in Configs
    /\ store \in InitialStores
    /\ store0 = store
    /\ hpc = "idle"
    /\ status = 0
    /\ filename = <<>>
    /\ fileBytes = [valid |-> FALSE, format |-> "", w |-> 0, h |-> 0]
    /\ compressSizes = <<>>
    /\ pc = "None"
    /\ img = [w |-> 0, h |-> 0]
    /\ format = ""
    /\ timestamp = 0
    /\ fileExt = <<>>
    /\ fileNameWithoutExt = <<>>
    /\ response = Nil
    /\ err = ""
    /\ idx = 1
    /\ waiting = FALSE
    /\ puts = <<>>
    /\ attempts = <<>>
    /\ lookup = Nil

serviceVars == <<pc, img, format, timestamp, fileExt, fileNameWithoutExt,
                 response, err, idx, waiting, puts, attempts>>

requestVars == <<filename, fileBytes, compressSizes>>

-----------------------------------------------------------------------------
(* ImageHandler.Upload *)

SupportedExts == { <<".", "j", "p", "g">>, <<".", "j", "p", "e", "g">>,
                   <<".", "p", "n", "g">> }

\* The multipart form of a request: whether it parses, whether it has the
\* "image" part, the part's file name and bytes, whether reading them
\* succeeds, and the compress_sizes value (absent, not JSON, or a JSON list)
Forms ==
    [parse : {"ok", "error"}, hasImage : BOOLEAN, filename : Filenames,
     bytes : Payloads, readOk : BOOLEAN,
     sizes : {[kind |-> "empty", specs |-> <<>>],
              [kind |-> "malformed", specs |-> <<>>]}
             \cup {[kind |-> "json", specs |-> l] : l \in SpecLists}]

\* Status with which Upload rejects the form before calling the service,
\* 0 if it does not
UploadRejects(form) ==
    IF form.parse # "ok" THEN 400
    ELSE IF ~form.hasImage THEN 400
    ELSE IF ToLower(Ext(form.filename)) \notin SupportedExts THEN 400
    ELSE IF form.sizes.kind = "empty" THEN 400
    ELSE IF form.sizes.kind # "json" THEN 400
    ELSE IF ~form.readOk THEN 500
    ELSE 0

\* Upload up to the call of ProcessAndUploadImage
Upload ==
    /\ hpc = "idle"
    /\ \E form \in Forms :
          IF UploadRejects(form) # 0
          THEN /\ status' = UploadRejects(form)
               /\ hpc' = "done"
               /\ UNCHANGED <<requestVars, serviceVars>>
          ELSE /\ filename' = form.filename
               /\ fileBytes' = form.bytes
               /\ compressSizes' = form.sizes.specs
               /\ hpc' = "service"
               /\ pc' = "Start"
               /\ UNCHANGED <<status, img, format, timestamp, fileExt,
                              fileNameWithoutExt, response, err, idx, waiting,
                              puts, attempts>>
    /\ store0' = store
    /\ UNCHANGED <<cfg, lookup, store>>

\* Status the handler gives the service's outcome
ServiceStatus(e) == IF e # "" THEN 500 ELSE 200

\* Upload after ProcessAndUploadImage returned
Respond ==
    /\ hpc = "service"
    /\ pc \in {"Completed", "Failed"}
    /\ status' = ServiceStatus(err)
    /\ hpc' = "done"
    /\ UNCHANGED <<cfg, lookup, store, store0, requestVars, serviceVars>>

-----------------------------------------------------------------------------
(* ImageService.ProcessAndUploadImage *)

\* Decode the image and derive the names
Decode ==
    /\ pc = "Start"
    /\ LET d == decodeImage(fileBytes) IN
       IF ~d.ok
       THEN /\ err' = "failed to decode image"
            /\ pc' = "Failed"
            /\ UNCHANGED <<img, format, timestamp, fileExt, fileNameWithoutExt>>
       ELSE /\ img' = d.img
            /\ format' = d.format
            /\ \E t \in Timestamps : timestamp' = t
            /\ fileExt' = ToLower(Ext(filename))
            /\ fileNameWithoutExt' = TrimSuffix(filename, ToLower(Ext(filename)))
            /\ pc' = "Decoded"
            /\ err' = err
    /\ UNCHANGED <<cfg, lookup, store, store0, hpc, status, requestVars, response, idx,
                   waiting, puts, attempts>>

\* The call of UploadFile for the original
UploadOriginal ==
    /\ pc = "Decoded"
    /\ ~waiting
    /\ UploadFileCall(fileBytes,
                      OriginalFileName(fileNameWithoutExt, timestamp, fileExt),
                      getContentType(format), 0)
    /\ UNCHANGED <<cfg, lookup, store, store0, hpc, status, requestVars, pc, img, format,
                   timestamp, fileExt, fileNameWithoutExt, response, err, idx,
                   attempts>>

\* As OriginalReturn, with the error of UploadFile ignored
OriginalReturnIgnoresError ==
    /\ pc = "Decoded"
    /\ \E ok \in BOOLEAN :
          /\ UploadFileReturn(ok)
          /\ response' =
                <<[OriginalImage |->
                      [Width |-> img.w, Height |-> img.h,
                       URL |-> ImageURL(cfg, puts[Len(puts)].key)],
                   CompressedImages |-> <<>>,
                   Message |-> "Image uploaded and processed successfully"]>>
          /\ pc' = "OriginalStored"
          /\ err' = err
    /\ UNCHANGED <<cfg, lookup, store0, hpc, status, requestVars, img, format, timestamp,
                   fileExt, fileNameWithoutExt, idx, attempts>>

\* UploadFile for the original returns; on success the response is created
OriginalReturn ==
    /\ pc = "Decoded"
    /\ \E ok \in BOOLEAN :
          /\ UploadFileReturn(ok)
          /\ IF ~ok
             THEN /\ err' = "failed to upload original image"
                  /\ pc' = "Failed"
                  /\ response' = response
             ELSE /\ response' =
                        <<[OriginalImage |->
                              [Width |-> img.w, Height |-> img.h,
                               URL |-> ImageURL(cfg, puts[Len(puts)].key)],
                           CompressedImages |-> <<>>,
                           Message |-> "Image uploaded and processed successfully"]>>
                  /\ pc' = "OriginalStored"
                  /\ err' = err
    /\ UNCHANGED <<cfg, lookup, store0, hpc, status, requestVars, img, format, timestamp,
                   fileExt, fileNameWithoutExt, idx, attempts>>

\* As SpecAttempt, with break in place of continue after an encode error
SpecAttemptBreaks ==
    /\ pc \in {"OriginalStored", "PerSpecAttempt"}
    /\ ~waiting
    /\ idx <= Len(compressSizes)
    /\ LET spec == compressSizes[idx]
           resizedImg == Resize(spec.Width, spec.Height, img)
       IN  \E encodeOk \in BOOLEAN :
              IF ~encodeOk
              THEN /\ attempts' = Append(attempts, "encode failed")
                   /\ idx' = Len(compressSizes) + 1
                   /\ UNCHANGED <<puts, waiting>>
              ELSE /\ UploadFileCall(resizedImg,
                                     CompressedFileName(fileNameWithoutExt, spec,
                                                        timestamp, fileExt),
                                     getContentType(format), idx)
                   /\ UNCHANGED <<attempts, idx>>
    /\ pc' = "PerSpecAttempt"
    /\ UNCHANGED <<cfg, lookup, store, store0, hpc, status, requestVars, img, format,
                   timestamp, fileExt, fileNameWithoutExt, response, err>>

\* One iteration of the range loop up to the call of UploadFile: resize,
\* encode (which the encoder may fail), derive the name, call
SpecAttempt ==
    /\ pc \in {"OriginalStored", "PerSpecAttempt"}
    /\ ~waiting
    /\ idx <= Len(compressSizes)
    /\ LET spec == compressSizes[idx]
           resizedImg == Resize(spec.Width, spec.Height, img)
       IN  \E encodeOk \in BOOLEAN :
              IF ~encodeOk
              THEN /\ attempts' = Append(attempts, "encode failed")
                   /\ idx' = idx + 1
                   /\ UNCHANGED <<puts, waiting>>
              ELSE /\ UploadFileCall(resizedImg,
                                     CompressedFileName(fileNameWithoutExt, spec,
                                                        timestamp, fileExt),
                                     getContentType(format), idx)
                   /\ UNCHANGED <<attempts, idx>>
    /\ pc' = "PerSpecAttempt"
    /\ UNCHANGED <<cfg, lookup, store, store0, hpc, status, requestVars, img, format,
                   timestamp, fileExt, fileNameWithoutExt, response, err>>

\* As VariantReturn, with the variant added to the response whatever
\* UploadFile returned
VariantReturnAlwaysAppends ==
    /\ pc = "PerSpecAttempt"
    /\ \E ok \in BOOLEAN :
          /\ UploadFileReturn(ok)
          /\ attempts' = Append(attempts, IF ok THEN "ok" ELSE "upload failed")
          /\ response' =
                <<[response[1] EXCEPT !.CompressedImages =
                      Append(@, [Width |-> compressSizes[idx].Width,
                                 Height |-> compressSizes[idx].Height,
                                 URL |-> ImageURL(cfg, puts[Len(puts)].key)])]>>
    /\ idx' = idx + 1
    /\ UNCHANGED <<cfg, lookup, store0, hpc, status, requestVars, pc, img, format,
                   timestamp, fileExt, fileNameWithoutExt, err>>

\* As VariantReturn, with a failed upload of a variant failing the request
VariantReturnAborts ==
    /\ pc = "PerSpecAttempt"
    /\ \E ok \in BOOLEAN :
          /\ UploadFileReturn(ok)
          /\ IF ~ok
             THEN /\ attempts' = Append(attempts, "upload failed")
                  /\ response' = Nil
                  /\ err' = "failed to upload compressed image"
                  /\ pc' = "Failed"
             ELSE /\ attempts' = Append(attempts, "ok")
                  /\ response' =
                        <<[response[1] EXCEPT !.CompressedImages =
                              Append(@, [Width |-> compressSizes[idx].Width,
                                         Height |-> compressSizes[idx].Height,
                                         URL |-> ImageURL(cfg, puts[Len(puts)].key)])]>>
                  /\ UNCHANGED <<err, pc>>
    /\ idx' = idx + 1
    /\ UNCHANGED <<cfg, lookup, store0, hpc, status, requestVars, img, format,
                   timestamp, fileExt, fileNameWithoutExt>>

\* As VariantReturn, with the same spec tried again after a failed upload
VariantReturnRetries ==
    /\ pc = "PerSpecAttempt"
    /\ \E ok \in BOOLEAN :
          /\ UploadFileReturn(ok)
          /\ IF ~ok
             THEN /\ UNCHANGED <<attempts, response, idx>>
             ELSE /\ attempts' = Append(attempts, "ok")
                  /\ response' =
                        <<[response[1] EXCEPT !.CompressedImages =
                              Append(@, [Width |-> compressSizes[idx].Width,
                                         Height |-> compressSizes[idx].Height,
                                         URL |-> ImageURL(cfg, puts[Len(puts)].key)])]>>
                  /\ idx' = idx + 1
    /\ UNCHANGED <<cfg, lookup, store0, hpc, status, requestVars, pc, img, format,
                   timestamp, fileExt, fileNameWithoutExt, err>>

\* UploadFile for a variant returns; on success the variant joins the response
VariantReturn ==
    /\ pc = "PerSpecAttempt"
    /\ \E ok \in BOOLEAN :
          /\ UploadFileReturn(ok)
          /\ IF ~ok
             THEN /\ attempts' = Append(attempts, "upload failed")
                  /\ response' = response
             ELSE /\ attempts' = Append(attempts, "ok")
                  /\ response' =
                        <<[response[1] EXCEPT !.CompressedImages =
                              Append(@, [Width |-> compressSizes[idx].Width,
                                         Height |-> compressSizes[idx].Height,
                                         URL |-> ImageURL(cfg, puts[Len(puts)].key)])]>>
    /\ idx' = idx + 1
    /\ UNCHANGED <<cfg, lookup, store0, hpc, status, requestVars, pc, img, format,
                   timestamp, fileExt, fileNameWithoutExt, err>>

\* The range loop is over: return response, nil
Return ==
    /\ pc \in {"OriginalStored", "PerSpecAttempt"}
    /\ ~waiting
    /\ idx > Len(compressSizes)
    /\ pc' = "Completed"
    /\ UNCHANGED <<cfg, lookup, store, store0, hpc, status, requestVars, img, format,
                   timestamp, fileExt, fileNameWithoutExt, response, err, idx,
                   waiting, puts, attempts>>

-----------------------------------------------------------------------------
(* ImageHandler.GetImage and ImageService.GetImageInfo *)

RECURSIVE Split(_, _)
\* strings.Split(s, sep) for a one-character separator
Split(s, sep) ==
    LET seps == {k \in 1..Len(s) : s[k] = sep} IN
    IF seps = {} THEN <<s>>
    ELSE LET k == CHOOSE m \in seps : \A n \in seps : m <= n
         IN  <<SubSeq(s, 1, k - 1)>> \o Split(SubSeq(s, k + 1, Len(s)), sep)

IsDigit(c) == \E d \in 1..Len(DigitChars) : DigitChars[d] = c

DigitValue(c) == (CHOOSE d \in 1..Len(DigitChars) : DigitChars[d] = c) - 1

\* Length of the longest prefix of s made of digits
DigitPrefix(s) ==
    SetMax({n \in 0..Len(s) : \A k \in 1..n : IsDigit(s[k])})

RECURSIVE DecimalValue(_)
DecimalValue(digits) ==
    IF digits = <<>> THEN 0
    ELSE 10 * DecimalValue(SubSeq(digits, 1, Len(digits) - 1))
             + DigitValue(digits[Len(digits)])

\* fmt.Sscanf(s, "%d", &v) on v = 0: an optional sign and the digits that
\* follow it are read, what comes after them is left; without a digit the
\* scan fails and v stays 0
Sscanf(s) ==
    LET signed == s # <<>> /\ s[1] \in {"+", "-"}
        rest == IF signed THEN Tail(s) ELSE s
        n == DigitPrefix(rest)
        v == DecimalValue(SubSeq(rest, 1, n))
    IN  IF n = 0 THEN 0
        ELSE IF signed /\ s[1] = "-" THEN 0 - v ELSE v

\* S3Repository.GetFile: HeadObject fails when the key is absent or the
\* request to the bucket fails (~headOk)
GetFile(s, fileName, headOk) ==
    IF headOk /\ fileName \in Keys(s)
    THEN [exists |-> TRUE, err |-> ""]
    ELSE [exists |-> FALSE, err |-> "head object failed"]

LookupURL(fileName) == <<"https://s3-url/">> \o fileName

\* The dimensions GetImageInfo takes from the name: those of the
\* next-to-last "_"-separated part when it reads <width>x<height> with both
\* positive, else 0 and 0
DimensionsOf(fileName) ==
    LET parts == Split(fileName, "_")
        dimParts == Split(parts[Len(parts) - 1], "x")
    IN  IF Len(parts) >= 2 /\ Len(dimParts) = 2
           /\ Sscanf(dimParts[1]) > 0 /\ Sscanf(dimParts[2]) > 0
        THEN [Width |-> Sscanf(dimParts[1]), Height |-> Sscanf(dimParts[2])]
        ELSE [Width |-> 0, Height |-> 0]

\* ImageService.GetImageInfo
GetImageInfo(s, fileName, headOk) ==
    LET f == GetFile(s, fileName, headOk) IN
    IF f.err # "" \/ ~f.exists
    THEN [result |-> Nil, err |-> "image not found"]
    ELSE [result |-> <<[Width |-> DimensionsOf(fileName).Width,
                        Height |-> DimensionsOf(fileName).Height,
                        URL |-> LookupURL(fileName)]>>,
          err |-> ""]

\* Names a client may ask for: the keys of the bucket, the keys the upload
\* wrote or tried to write, and a name no upload produces
LookupNames ==
    Keys(store) \cup {puts[k].key : k \in 1..Len(puts)} \cup {<<"n", "o">>}

\* ImageHandler.GetImage: one lookup, answered once the upload has been
\* responded to
GetImage ==
    /\ hpc = "done"
    /\ lookup = Nil
    /\ \E fileName \in LookupNames, headOk \in BOOLEAN :
          LET info == GetImageInfo(store, fileName, headOk) IN
          lookup' = <<[filename |-> fileName,
                       present |-> fileName \in Keys(store),
                       headOk |-> headOk,
                       result |-> info.result,
                       err |-> info.err,
                       status |-> IF info.err # "" THEN 404 ELSE 200]>>
    /\ UNCHANGED <<cfg, store, store0, hpc, status, requestVars, serviceVars>>

-----------------------------------------------------------------------------

Next ==
    \/ Upload
    \/ Decode
    \/ UploadOriginal
    \/ OriginalReturn
    \/ SpecAttempt
    \/ VariantReturn
    \/ Return
    \/ Respond

Spec == Init /\ [][Next]_vars

\* The request runs on its own goroutine and every call it makes returns
FairSpec == Spec /\ WF_vars(Next)

\* The server answering lookups as well
LookupNext ==
    \/ Next
    \/ GetImage

LookupSpec == Init /\ [][LookupNext]_vars

-----------------------------------------------------------------------------
(* Properties *)

Results == IF response = Nil THEN <<>> ELSE response[1].CompressedImages

\* The specs among the first Len(outs) of specs whose outcome is "ok"
RECURSIVE Kept(_, _)
Kept(specs, outs) ==
    IF specs = <<>> \/ outs = <<>> THEN <<>>
    ELSE (IF Head(outs) = "ok" THEN <<Head(specs)>> ELSE <<>>)
             \o Kept(Tail(specs), Tail(outs))

\* C1: when the request has returned after decode and the original's put
\* succeeded, it returned a nil error, every spec was processed, and
\* CompressedImages is the caller's spec sequence with the specs whose encode
\* or put failed removed, in order and without placeholders.
C1_PartialFailure ==
    pc = "Completed" =>
        /\ err = ""
        /\ response # Nil
        /\ Len(attempts) = Len(compressSizes)
        /\ [j \in 1..Len(Results) |->
               [Width |-> Results[j].Width, Height |-> Results[j].Height]]
             = Kept(compressSizes, attempts)

\* Put failed for exactly one spec out of two: one variant is returned
C1_Witness ==
    /\ pc = "Completed"
    /\ Len(compressSizes) = 2
    /\ attempts = <<"upload failed", "ok">>
    /\ compressSizes[1] # compressSizes[2]
    /\ Len(Results) = 1

\* C2: when the uploaded bytes do not decode, the request fails with the
\* decode error and no result, it issues no put, and the bucket is as it was
\* when the request arrived.
C2_DecodeFailure ==
    (pc \notin {"None", "Start"} /\ ~fileBytes.valid) =>
        /\ pc = "Failed"
        /\ err = "failed to decode image"
        /\ response = Nil
        /\ puts = <<>>
        /\ store = store0

\* A decode failure on a bucket that holds an object
C2_Witness ==
    /\ pc = "Failed"
    /\ ~fileBytes.valid
    /\ store # {}
    /\ hpc = "done"

\* C3: a put of a variant is issued only after the original's put was issued
\* and succeeded; when the original's put failed, no spec is processed and the
\* request fails with the original-upload error.
C3_OriginalFirst ==
    /\ \A k \in 1..Len(puts) :
          puts[k].spec # 0 =>
              /\ k > 1
              /\ puts[1].spec = 0
              /\ puts[1].result = "ok"
    /\ attempts # <<>> => (puts # <<>> /\ puts[1].spec = 0 /\ puts[1].result = "ok")
    /\ (puts # <<>> /\ puts[1].result = "error") =>
          /\ Len(puts) = 1
          /\ attempts = <<>>
          /\ pc = "Failed"
          /\ err = "failed to upload original image"
          /\ response = Nil

\* The original's put failed on a request that asked for variants
C3_Witness ==
    /\ pc = "Failed"
    /\ Len(compressSizes) > 0
    /\ Len(puts) = 1
    /\ puts[1].result = "error"

ResponseURLs ==
    IF response = Nil THEN {}
    ELSE {response[1].OriginalImage.URL} \cup {Results[j].URL : j \in 1..Len(Results)}

\* C4: every URL of the response is the URL of a key for which a put of this
\* request succeeded and which the bucket holds.
C4_URLsCommitted ==
    \A url \in ResponseURLs :
        \E k \in 1..Len(puts) :
            /\ puts[k].result = "ok"
            /\ ImageURL(cfg, puts[k].key) = url
            /\ puts[k].key \in Keys(store)

\* A response with a variant, returned after the put of another variant failed
C4_Witness ==
    /\ pc = "Completed"
    /\ Len(Results) = 1
    /\ attempts = <<"ok", "upload failed">>

\* C5: every result of a returned response reports the bounds of the raster
\* stored under its URL: the original's are the decoded raster's, a variant's
\* are the resized raster's.
C5_ActualDimensions ==
    pc = "Completed" =>
        /\ response[1].OriginalImage.Width = fileBytes.w
        /\ response[1].OriginalImage.Height = fileBytes.h
        /\ \A j \in 1..Len(Results) : \A o \in store :
              ImageURL(cfg, o.key) = Results[j].URL =>
                  /\ o.obj.w = Results[j].Width
                  /\ o.obj.h = Results[j].Height

\* C6: the keys of the puts of one request are pairwise distinct.
C6_DistinctKeys ==
    \A j, k \in 1..Len(puts) : j # k => puts[j].key # puts[k].key

\* The file name without its extension
Basename(name) == SubSeq(name, 1, Len(name) - Len(Ext(name)))

\* C7: the original's key is <basename>_<timestamp><ext> and the key of spec
\* (w,h) is <basename>_<w>x<h>_<timestamp><ext>, with basename the file name
\* without its extension, ext the lower-cased extension, and one timestamp.
C7_KeyDerivation ==
    \A k \in 1..Len(puts) :
        puts[k].key =
            IF puts[k].spec = 0
            THEN Basename(filename) \o <<"_">> \o Itoa(timestamp)
                     \o ToLower(Ext(filename))
            ELSE Basename(filename) \o <<"_">>
                     \o Itoa(compressSizes[puts[k].spec].Width) \o <<"x">>
                     \o Itoa(compressSizes[puts[k].spec].Height) \o <<"_">>
                     \o Itoa(timestamp) \o ToLower(Ext(filename))

\* C8: a decode failure is answered with a 4xx status and a failure to store
\* the original with a 5xx status.
C8_ErrorStatus ==
    (hpc = "done" /\ pc = "Failed") =>
        /\ err = "failed to decode image" => status \in 400..499
        /\ err = "failed to upload original image" => status \in 500..599

\* Transitions of the orchestrator's state machine
Transitions ==
    { <<"None", "Start">>, <<"Start", "Decoded">>, <<"Start", "Failed">>,
      <<"Decoded", "OriginalStored">>, <<"Decoded", "Failed">>,
      <<"OriginalStored", "PerSpecAttempt">>, <<"OriginalStored", "Completed">>,
      <<"PerSpecAttempt", "Completed">> }

\* C9 as stated: Failed is entered only from Decoded or OriginalStored.
C9_FailedFromDecodedOrStored ==
    [][(pc' = "Failed" /\ pc # "Failed") => pc \in {"Decoded", "OriginalStored"}]_vars

\* C9 amended: the run follows Start -> Decoded -> OriginalStored ->
\* {PerSpecAttempt}* -> Completed; Failed is entered only from Start (decode
\* fails) or Decoded (the original's put fails), never from OriginalStored or
\* PerSpecAttempt; Completed and Failed are final and every run reaches one.
C9_StateMachine ==
    /\ [][pc' # pc => <<pc, pc'>> \in Transitions]_vars
    /\ (pc = "Start") ~> (pc \in {"Completed", "Failed"})

\* A completed run in which every spec failed
C9_Witness ==
    /\ pc = "Completed"
    /\ Len(compressSizes) = 2
    /\ attempts = <<"encode failed", "upload failed">>

\* C10: at most one put is in flight, and it is the last one issued; the
\* first put is the original's; the others are of specs in increasing spec
\* index, so at most one per spec; a spec whose encode failed has none; a
\* spec that was processed otherwise has one.
C10_SequentialPuts ==
    /\ Cardinality(Pending) <= 1
    /\ Pending \subseteq {Len(puts)}
    /\ waiting <=> (Pending # {})
    /\ Len(puts) <= 1 + Len(compressSizes)
    /\ puts # <<>> => puts[1].spec = 0
    /\ \A k \in 2..Len(puts) : puts[k].spec \in 1..Len(compressSizes)
    /\ \A j, k \in 1..Len(puts) : j < k => puts[j].spec < puts[k].spec
    /\ \A j \in 1..Len(attempts) :
          (attempts[j] = "encode failed")
              <=> ~(\E k \in 1..Len(puts) : puts[k].spec = j)

\* A completed run that issued a put for the original and for each of two
\* specs, the first of which failed
C10_Witness ==
    /\ pc = "Completed"
    /\ Len(compressSizes) = 2
    /\ Len(puts) = 3
    /\ puts[2].result = "error"
    /\ puts[3].result = "ok"

\* C11: a lookup of a key under which this request stored the variant of a
\* spec with positive sides returns the spec's width and height; a lookup of
\* the key under which it stored the original returns width 0 and height 0;
\* a lookup of a key that is absent, or whose existence check fails, returns
\* the not-found error and no result.
C11_LookupConsistent ==
    lookup # Nil =>
        LET l == lookup[1] IN
        /\ (~l.present \/ ~l.headOk) =>
              (l.err = "image not found" /\ l.result = Nil)
        /\ (l.present /\ l.headOk) =>
              /\ l.err = ""
              /\ l.result # Nil
              /\ \A k \in 1..Len(puts) :
                    (puts[k].result = "ok" /\ puts[k].key = l.filename) =>
                        IF puts[k].spec = 0
                        THEN /\ l.result[1].Width = 0
                             /\ l.result[1].Height = 0
                        ELSE LET spec == compressSizes[puts[k].spec] IN
                             (spec.Width > 0 /\ spec.Height > 0) =>
                                 /\ l.result[1].Width = spec.Width
                                 /\ l.result[1].Height = spec.Height

====
